---- MODULE Spec2Model ----
(***************************************************************************)
(* Model of atom/tests/charts.py: the concurrent chart batch               *)
(* (generate_all_charts_optimized), the chart functions' use of the        *)
(* pyplot global state, and the lru_cache in front of compute_statistics.  *)
(***************************************************************************)
EXTENDS Integers, Sequences, FiniteSets, Bags, TLC

(* ------------------------------ bounds -------------------------------- *)
\* number of destinations of a five-job batch at which plt.savefig raises
MaxUnwritable == 1
\* number of threads that call compute_statistics
NumCallers == 2
\* number of calls of compute_statistics the threads make in all
MaxCalls == 3
\* length of the metric lists whose jobs are enumerated
MaxMetrics == 3
\* number of points of a suite of the datasets the functions are applied to
MaxPoints == 2
\* number of values the statistics are computed from
MaxValues == 3
\* number of suites of the series that are stacked or drawn
MaxSuites == 2

(* ------------------------- program constants -------------------------- *)
\* ThreadPoolExecutor(max_workers=4)
max_workers == 4
\* @lru_cache(maxsize=64) on compute_statistics
maxsize == 64

(* ------------------------------ helpers ------------------------------- *)
SetMin(S) == CHOOSE x \in S : \A y \in S : x <= y
Last(s) == s[Len(s)]
RemoveFig(s, f) == SelectSeq(s, LAMBDA x : x # f)
NoError == << >>

(* ------------------------------ dataset ------------------------------- *)
\* a data point: metric name -> value (here with the keys m1, m2)
Point(a, b) == [k \in {"m1", "m2"} |-> IF k = "m1" THEN a ELSE b]
\* PerformanceData: a dict in insertion order, as a sequence of <<suite, points>>
ValidData == << <<"suiteA", <<Point(10, 1), Point(12, 2)>> >>,
                <<"suiteB", <<Point(8, 3)>> >> >>
EmptyData == << >>
NoPointsData == << <<"suiteA", <<Point(10, 1)>> >>, <<"suiteB", << >> >> >>
InconsistentData == << <<"suiteA", <<Point(10, 1)>> >>,
                       <<"suiteB", <<Point(8, 3), [k \in {"m1"} |-> 9]>> >> >>
\* a well-formed dataset in which the mean of m2 is negative for suiteA
NegativeData == << <<"suiteA", <<Point(10, -1), Point(12, -3)>> >>,
                   <<"suiteB", <<Point(8, 3)>> >> >>
Datasets == {ValidData, NegativeData, EmptyData, NoPointsData, InconsistentData}

\* the metric lists a batch is called with ("zz" is no key of any point)
MetricLists == { << >>, <<"m1">>, <<"m1", "m2">>, <<"m1", "zz">> }

\* ChartStyle(name, dark_mode)
ChartStyle(n, d) == [name |-> n, dark_mode |-> d]
Styles == {ChartStyle("default", FALSE), ChartStyle("default", TRUE)}

(* ----------------------------- validation ----------------------------- *)
\* mutant: the points are counted from 1
SuiteError_FromOne(suite) ==
    LET name == suite[1]
        pts  == suite[2]
    IN  IF Len(pts) = 0
        THEN <<"PerformanceDataError", "no_data_points", name>>
        ELSE LET bad == {i \in 2..Len(pts) : DOMAIN pts[i] # DOMAIN pts[1]}
             IN  IF bad = {}
                 THEN NoError
                 ELSE <<"PerformanceDataError", "inconsistent", name, SetMin(bad)>>
\* the per-suite part of the wrapper of validate_data_integrity
SuiteError(suite) ==
    LET name == suite[1]
        pts  == suite[2]
    IN  IF Len(pts) = 0
        THEN <<"PerformanceDataError", "no_data_points", name>>
        ELSE LET bad == {i \in 2..Len(pts) : DOMAIN pts[i] # DOMAIN pts[1]}
             IN  IF bad = {}
                 THEN NoError
                 \* enumerate(suite_data[1:], 1): the second point has index 1
                 ELSE <<"PerformanceDataError", "inconsistent", name, SetMin(bad) - 1>>

\* the wrapper of the decorator: NoError, or the first error it raises
validate_data_integrity(d) ==
    IF Len(d) = 0
    THEN <<"PerformanceDataError", "empty">>
    ELSE LET bad == {s \in 1..Len(d) : SuiteError(d[s]) # NoError}
         IN  IF bad = {} THEN NoError ELSE SuiteError(d[SetMin(bad)])

\* mutant: only the first suite is looked at
get_available_metrics_uncached_FirstSuite(d) ==
    IF Len(d) = 0 \/ Len(d[1][2]) = 0 THEN {} ELSE DOMAIN d[1][2][1]
\* keys of the first point of the first non-empty suite (as a set)
get_available_metrics_uncached(d) ==
    LET nonempty == {s \in 1..Len(d) : Len(d[s][2]) > 0}
    IN  IF nonempty = {} THEN {} ELSE DOMAIN d[SetMin(nonempty)][2][1]

validate_metric(d, metric) ==
    IF metric \in get_available_metrics_uncached(d)
    THEN NoError
    ELSE <<"PerformanceDataError", "metric_not_found", metric,
           get_available_metrics_uncached(d)>>

RECURSIVE FirstMetricError(_, _)
FirstMetricError(d, ms) ==
    IF ms = << >> THEN NoError
    ELSE IF validate_metric(d, Head(ms)) # NoError
         THEN validate_metric(d, Head(ms))
         ELSE FirstMetricError(d, Tail(ms))

\* what a chart function checks before it touches the backend:
\* the decorator first, then validate_metric for each metric it names
ChartValidation(d, job) ==
    IF validate_data_integrity(d) # NoError
    THEN validate_data_integrity(d)
    ELSE FirstMetricError(d, job.metrics)

(* ------------------------------ job list ------------------------------ *)
Job(k, ms, dst) == [kind |-> k, metrics |-> ms, dest |-> dst]
MetricJobs(m) ==
    << Job("bar", <<m>>, <<m, "_bar.png">>),
       Job("line", <<m>>, <<m, "_line.png">>),
       Job("pie", <<m>>, <<m, "_pie.png">>),
       Job("histogram", <<m>>, <<m, "_histogram.png">>) >>

RECURSIVE PerMetricJobs(_)
PerMetricJobs(ms) ==
    IF ms = << >> THEN << >> ELSE MetricJobs(Head(ms)) \o PerMetricJobs(Tail(ms))

\* mutant: the pair is submitted the other way round
ScatterJob_Swapped(x, y) == Job("scatter", <<y, x>>, <<y, "_vs_", x, "_scatter.png">>)
ScatterJob(x, y) == Job("scatter", <<x, y>>, <<y, "_vs_", x, "_scatter.png">>)

RECURSIVE ScatterRow(_, _)
ScatterRow(x, ys) ==
    IF ys = << >> THEN << >> ELSE <<ScatterJob(x, Head(ys))>> \o ScatterRow(x, Tail(ys))

RECURSIVE ScatterJobs(_)
ScatterJobs(ms) ==
    IF Len(ms) < 2 THEN << >>
    ELSE ScatterRow(Head(ms), Tail(ms)) \o ScatterJobs(Tail(ms))

HeatmapJob(ms) == Job("heatmap", ms, <<"metrics_heatmap.png">>)

\* the calls submitted by generate_all_charts_optimized, in submission order
BatchJobs(ms) == PerMetricJobs(ms) \o ScatterJobs(ms) \o <<HeatmapJob(ms)>>

(* --------------------------- backend style ---------------------------- *)
\* the style sheet create_style_config selects
StyleSheet(st) ==
    IF st.dark_mode THEN "dark_background"
    ELSE IF st.name = "seaborn" THEN "seaborn"
    ELSE IF st.name = "ggplot" THEN "ggplot"
    ELSE IF st.name = "minimal" THEN "seaborn-v0_8-whitegrid"
    ELSE "default"
\* plt.style.use(sheet): the sheet and its own colour cycle
StyleUse(sheet) == [sheet |-> sheet, palette |-> sheet]
\* sns.set_palette("husl")
SetPalette(r) == [r EXCEPT !.palette = "husl"]
\* rcParams after a complete create_style_config(style) body
StyleApplied(st) ==
    IF st.dark_mode THEN SetPalette(StyleUse(StyleSheet(st))) ELSE StyleUse(StyleSheet(st))
NotSeen == [sheet |-> "", palette |-> ""]

(* ------------------------- drawing and saving ------------------------- *)
RECURSIVE SeqSum(_)
SeqSum(s) == IF s = << >> THEN 0 ELSE Head(s) + SeqSum(Tail(s))

\* one <<suite, values>> per suite, in the dataset's order
get_metric_values(d, metric) ==
    [s \in 1..Len(d) |-> <<d[s][1], [i \in 1..Len(d[s][2]) |-> d[s][2][i][metric]]>>]

\* the error the drawing calls of a chart function raise, if any: ax.pie
\* rejects a negative wedge size, and a wedge is the mean of a suite's values
DrawError(d, job) ==
    IF /\ job.kind = "pie"
       /\ \E s \in 1..Len(d) : SeqSum(get_metric_values(d, job.metrics[1])[s][2]) < 0
    THEN <<"ValueError", "negative wedge">>
    ELSE NoError

(* ------------------------------- inputs ------------------------------- *)
Dests(ms) == {BatchJobs(ms)[j].dest : j \in 1..Len(BatchJobs(ms))}
Batch(d, ms, st, unw) == [data |-> d, metrics |-> ms, style |-> st, unwritable |-> unw]
\* the calls generate_all_charts_optimized(data, metrics, out_dir, False, style)
\* that are explored; unwritable: the destinations at which plt.savefig raises
Batches ==
    {Batch(ValidData, ms, ChartStyle("default", FALSE), {}) : ms \in MetricLists}
    \cup {Batch(NegativeData, <<"m1", "m2">>, ChartStyle("default", FALSE), {})}
    \cup {Batch(d, ms, ChartStyle("default", FALSE), {}) :
             d \in Datasets, ms \in {<< >>, <<"m1">>}}
    \cup {Batch(ValidData, <<"m1">>, st, {}) : st \in Styles}
    \cup {Batch(ValidData, <<"m1">>, ChartStyle("default", FALSE), unw) :
             unw \in {u \in SUBSET Dests(<<"m1">>) : Cardinality(u) <= MaxUnwritable}}

(* ------------------------------- state -------------------------------- *)
VARIABLES
    data,              \* the dataset passed to the batch
    metrics,           \* the metric list passed to the batch
    style,             \* the ChartStyle passed to the batch
    unwritable,        \* the destinations at which plt.savefig raises
    mainpc,            \* the calling thread: "submit", "collect", "returned"
    futures,           \* the futures list: the calls submitted so far
    queue,             \* the executor's work queue
    pc,                \* each job's position
    outcome,           \* each future's result or exception
    completed_charts,  \* the results collected (order left out: a bag)
    log,               \* the records written through logger
    ret,               \* the value the batch call returned
    rc,                \* pyplot's global rcParams (sheet and colour cycle)
    styleCache,        \* the keys in create_style_config's lru_cache
    figs,              \* pyplot's open figures, the last one is the current
    seen,              \* the rcParams each job's figure was created under
    laid,              \* the figure each job's plt.tight_layout() acted on
    saved,             \* the figure each job's plt.savefig() wrote
    cache,             \* compute_statistics' lru_cache, least recently used first
    cpc,               \* each caller of compute_statistics: "idle" or "computing"
    creq,              \* the arguments of each caller's current or last call
    cgot,              \* what each caller's last call returned
    calls,             \* the calls of compute_statistics made so far
    recency,           \* the keys in the order of their last use, oldest first
    run,               \* 1 for the first run of the batch, 2 for a repeated run
    left,              \* the files the earlier run of the batch left behind
    arg,               \* the argument of the function under study
    res,               \* what the function under study returned or raised
    fpc                \* the position of the function under study

inputVars == <<data, metrics, style, unwritable>>
mainVars == <<mainpc, completed_charts, log, ret>>
backendVars == <<rc, styleCache, figs, seen, laid, saved>>
cacheVars == <<cache, cpc, creq, cgot, calls, recency>>
runVars == <<run, left>>
fnVars == <<arg, res, fpc>>

\* the batch submits NJobs jobs; a job is named by its place in the submission order
NJobs == Cardinality(DOMAIN pc)
JobIds == DOMAIN pc
output_dir == <<"output_dir">>

RunningPcs == {"begin", "style_use", "set_palette", "cache_store",
               "subplots", "draw", "save", "close"}
\* the jobs a worker thread is executing
Running == {j \in JobIds : pc[j] \in RunningPcs}
Finished == {j \in JobIds : pc[j] \in {"ok", "err"}}
\* mutant: the pool starts a thread for every work item
WorkerFree_Unbounded == TRUE
\* a worker of the pool is idle or can still be created
WorkerFree == Cardinality(Running) < max_workers

Result(j) == <<"result", futures[j].dest>>
Exception(e) == <<"exception", e>>
\* plt.gcf(): the figure pyplot calls act on
Gcf == Last(figs)

BatchInit(batches) ==
    /\ \E b \in batches :
          /\ data = b.data
          /\ metrics = b.metrics
          /\ style = b.style
          /\ unwritable = b.unwritable
    /\ run = 1
    /\ left = {}
    /\ mainpc = "submit"
    /\ futures = << >>
    /\ queue = << >>
    /\ pc = [j \in 1..Len(BatchJobs(metrics)) |-> "unsubmitted"]
    /\ outcome = [j \in 1..Len(BatchJobs(metrics)) |-> << >>]
    /\ completed_charts = EmptyBag
    /\ log = EmptyBag
    /\ ret = << >>
    /\ rc = StyleUse("default")
    /\ styleCache = {}
    /\ figs = << >>
    /\ seen = [j \in 1..Len(BatchJobs(metrics)) |-> NotSeen]
    /\ laid = [j \in 1..Len(BatchJobs(metrics)) |-> 0]
    /\ saved = [j \in 1..Len(BatchJobs(metrics)) |-> 0]

(* --------------------------- calling thread --------------------------- *)
\* one executor.submit(...) of the submission loops
Submit ==
    /\ mainpc = "submit"
    /\ LET j == Len(futures) + 1
       IN  /\ futures' = Append(futures, BatchJobs(metrics)[j])
           /\ queue' = Append(queue, j)
           /\ pc' = [pc EXCEPT ![j] = "queued"]
           /\ mainpc' = IF j = NJobs THEN "collect" ELSE "submit"
    /\ UNCHANGED <<cacheVars, fnVars, runVars, inputVars, outcome, completed_charts, log, ret, backendVars>>

\* mutant: the except clause swallows the failure without a record
CollectResult_DropsFailure(j) ==
    /\ completed_charts' = IF outcome[j][1] = "result"
                           THEN completed_charts (+) SetToBag({outcome[j][2]})
                           ELSE completed_charts
    /\ UNCHANGED log
\* the body of the loop over as_completed(futures) for the future of job j
CollectResult(j) ==
    IF outcome[j][1] = "result"
    THEN /\ completed_charts' = completed_charts (+) SetToBag({outcome[j][2]})
         /\ UNCHANGED log
    ELSE /\ log' = log (+) SetToBag({<<"error", outcome[j][2]>>})
         /\ UNCHANGED completed_charts

\* mutant: future.result() is not guarded, a job's exception ends the call
Collect_Reraises(j) ==
    /\ mainpc = "collect"
    /\ j \in Finished
    /\ IF outcome[j][1] = "result"
       THEN /\ completed_charts' = completed_charts (+) SetToBag({outcome[j][2]})
            /\ mainpc' = mainpc
       ELSE /\ mainpc' = "raised"
            /\ UNCHANGED completed_charts
    /\ pc' = [pc EXCEPT ![j] = "collected"]
    /\ UNCHANGED <<cacheVars, fnVars, runVars, inputVars, futures, queue, outcome, log, ret, backendVars>>
\* one iteration of the loop over as_completed(futures)
Collect(j) ==
    /\ mainpc = "collect"
    /\ j \in Finished
    /\ CollectResult(j)
    /\ pc' = [pc EXCEPT ![j] = "collected"]
    /\ UNCHANGED <<cacheVars, fnVars, runVars, inputVars, mainpc, futures, queue, outcome, ret, backendVars>>

\* as_completed is exhausted, the executor shuts down, the call returns
Return ==
    /\ mainpc = "collect"
    /\ \A j \in JobIds : pc[j] = "collected"
    /\ log' = log (+) SetToBag({<<"info", BagCardinality(completed_charts)>>})
    /\ ret' = output_dir
    /\ mainpc' = "returned"
    /\ UNCHANGED <<cacheVars, fnVars, runVars, inputVars, futures, queue, pc, outcome, completed_charts, backendVars>>

(* ---------------------------- worker pool ----------------------------- *)
\* a worker thread takes the next work item from the queue
StartJob(j) ==
    /\ queue # << >>
    /\ j = Head(queue)
    /\ WorkerFree
    /\ queue' = Tail(queue)
    /\ pc' = [pc EXCEPT ![j] = "begin"]
    /\ UNCHANGED <<cacheVars, fnVars, runVars, inputVars, mainVars, futures, outcome, backendVars>>

\* the call raises: the job's future is set to the exception
Raise(j, e) ==
    /\ outcome' = [outcome EXCEPT ![j] = Exception(e)]
    /\ pc' = [pc EXCEPT ![j] = "err"]

\* the job moves on to its next step
Goto(j, next) ==
    /\ pc' = [pc EXCEPT ![j] = next]
    /\ UNCHANGED outcome

\* a chart function run from its first line to its return or raise with no
\* other thread in between
RunJob(j) ==
    /\ pc[j] = "begin"
    /\ UNCHANGED <<cacheVars, fnVars, runVars, inputVars, mainVars, futures, queue>>
    /\ IF ChartValidation(data, futures[j]) # NoError
       THEN /\ Raise(j, ChartValidation(data, futures[j]))
            /\ UNCHANGED backendVars
       ELSE /\ rc' = IF style \in styleCache THEN rc ELSE StyleApplied(style)
            /\ styleCache' = styleCache \cup {style}
            /\ seen' = [seen EXCEPT ![j] = rc']
            /\ IF DrawError(data, futures[j]) # NoError
               THEN \* the figure is never closed
                    /\ Raise(j, DrawError(data, futures[j]))
                    /\ figs' = Append(figs, j)
                    /\ UNCHANGED <<laid, saved>>
               ELSE IF futures[j].dest \in unwritable
               THEN /\ Raise(j, <<"OSError", futures[j].dest>>)
                    /\ figs' = Append(figs, j)
                    /\ laid' = [laid EXCEPT ![j] = j]
                    /\ UNCHANGED saved
               ELSE /\ outcome' = [outcome EXCEPT ![j] = Result(j)]
                    /\ pc' = [pc EXCEPT ![j] = "ok"]
                    /\ laid' = [laid EXCEPT ![j] = j]
                    /\ saved' = [saved EXCEPT ![j] = j]
                    /\ UNCHANGED figs

(* ------------- the steps of one chart function in a worker ------------ *)
\* the decorator, validate_metric, and the lookup in create_style_config's cache
Begin(j) ==
    /\ pc[j] = "begin"
    /\ IF ChartValidation(data, futures[j]) # NoError
       THEN Raise(j, ChartValidation(data, futures[j]))
       ELSE IF style \in styleCache
       THEN Goto(j, "subplots")
       ELSE Goto(j, "style_use")
    /\ UNCHANGED <<cacheVars, fnVars, runVars, inputVars, mainVars, futures, queue, backendVars>>

\* create_style_config: plt.style.use(...) or sns.set_theme()
StyleUseStep(j) ==
    /\ pc[j] = "style_use"
    /\ rc' = StyleUse(StyleSheet(style))
    /\ Goto(j, IF style.dark_mode THEN "set_palette" ELSE "cache_store")
    /\ UNCHANGED <<cacheVars, fnVars, runVars, inputVars, mainVars, futures, queue, styleCache, figs, seen, laid, saved>>

\* create_style_config with dark_mode: sns.set_palette("husl")
SetPaletteStep(j) ==
    /\ pc[j] = "set_palette"
    /\ rc' = SetPalette(rc)
    /\ Goto(j, "cache_store")
    /\ UNCHANGED <<cacheVars, fnVars, runVars, inputVars, mainVars, futures, queue, styleCache, figs, seen, laid, saved>>

\* create_style_config returns and lru_cache stores the key
CacheStore(j) ==
    /\ pc[j] = "cache_store"
    /\ styleCache' = styleCache \cup {style}
    /\ Goto(j, "subplots")
    /\ UNCHANGED <<cacheVars, fnVars, runVars, inputVars, mainVars, futures, queue, rc, figs, seen, laid, saved>>

\* plt.subplots(...): a new figure, made the current one, under the rcParams of now
Subplots(j) ==
    /\ pc[j] = "subplots"
    /\ figs' = Append(figs, j)
    /\ seen' = [seen EXCEPT ![j] = rc]
    /\ Goto(j, "draw")
    /\ UNCHANGED <<cacheVars, fnVars, runVars, inputVars, mainVars, futures, queue, rc, styleCache, laid, saved>>

\* mutant: drawing takes the first suite out of the dataset it was passed
Draw_ConsumesData(j) ==
    /\ pc[j] = "draw"
    /\ IF DrawError(data, futures[j]) # NoError
       THEN /\ Raise(j, DrawError(data, futures[j]))
            /\ UNCHANGED laid
       ELSE /\ laid' = [laid EXCEPT ![j] = Gcf]
            /\ Goto(j, "save")
    /\ data' = Tail(data)
    /\ UNCHANGED <<cacheVars, fnVars, runVars, metrics, style, unwritable, mainVars, futures, queue, rc, styleCache, figs, seen, saved>>
\* the drawing calls on the job's own axes, then plt.tight_layout()
Draw(j) ==
    /\ pc[j] = "draw"
    /\ IF DrawError(data, futures[j]) # NoError
       THEN /\ Raise(j, DrawError(data, futures[j]))
            /\ UNCHANGED laid
       ELSE /\ laid' = [laid EXCEPT ![j] = Gcf]
            /\ Goto(j, "save")
    /\ UNCHANGED <<cacheVars, fnVars, runVars, inputVars, mainVars, futures, queue, rc, styleCache, figs, seen, saved>>

\* mutant: a destination that exists already is not written again
Save_KeepsExisting(j) ==
    /\ pc[j] = "save"
    /\ IF futures[j].dest \in unwritable \cup left
       THEN /\ Raise(j, <<"OSError", futures[j].dest>>)
            /\ UNCHANGED saved
       ELSE /\ saved' = [saved EXCEPT ![j] = Gcf]
            /\ Goto(j, "close")
    /\ UNCHANGED <<cacheVars, fnVars, runVars, inputVars, mainVars, futures, queue, rc, styleCache, figs, seen, laid>>
\* plt.savefig(output_path, ...)
Save(j) ==
    /\ pc[j] = "save"
    /\ IF futures[j].dest \in unwritable
       THEN /\ Raise(j, <<"OSError", futures[j].dest>>)
            /\ UNCHANGED saved
       ELSE /\ saved' = [saved EXCEPT ![j] = Gcf]
            /\ Goto(j, "close")
    /\ UNCHANGED <<cacheVars, fnVars, runVars, inputVars, mainVars, futures, queue, rc, styleCache, figs, seen, laid>>

\* plt.close(fig) and the return of output_path
Close(j) ==
    /\ pc[j] = "close"
    /\ figs' = RemoveFig(figs, j)
    /\ outcome' = [outcome EXCEPT ![j] = Result(j)]
    /\ pc' = [pc EXCEPT ![j] = "ok"]
    /\ UNCHANGED <<cacheVars, fnVars, runVars, inputVars, mainVars, futures, queue, rc, styleCache, seen, laid, saved>>

vars == <<data, metrics, style, unwritable, mainpc, futures, queue, pc, outcome,
          completed_charts, log, ret, rc, styleCache, figs, seen, laid, saved,
          cache, cpc, creq, cgot, calls, recency, run, left, arg, res, fpc>>

(* ---------------------- the statistics cache -------------------------- *)
RECURSIVE SeqMin(_)
SeqMin(s) == IF Len(s) = 1 THEN s[1]
             ELSE IF s[1] <= SeqMin(Tail(s)) THEN s[1] ELSE SeqMin(Tail(s))
RECURSIVE SeqMax(_)
SeqMax(s) == IF Len(s) = 1 THEN s[1]
             ELSE IF s[1] >= SeqMax(Tail(s)) THEN s[1] ELSE SeqMax(Tail(s))
RECURSIVE SeqSumSq(_)
SeqSumSq(s) == IF s = << >> THEN 0 ELSE Head(s) * Head(s) + SeqSumSq(Tail(s))

\* mutant: the sample standard deviation (divisor count - 1)
from_values_SampleStd(values) ==
    IF values = << >>
    THEN <<"ValueError", "empty values">>
    ELSE [min_val |-> SeqMin(values),
          max_val |-> SeqMax(values),
          avg_val |-> <<SeqSum(values), Len(values)>>,
          std_dev |-> IF Len(values) > 1
                      THEN <<Len(values) * SeqSumSq(values) - SeqSum(values) * SeqSum(values),
                             Len(values) * (Len(values) - 1)>>
                      ELSE <<0, 1>>,
          count   |-> Len(values)]
\* PerformanceStats.from_values, kept exact: avg_val is the fraction
\* <<sum, count>>, std_dev is given by its square, the fraction
\* <<count * sum of squares - sum^2, count^2>> (0 for a single value)
from_values(values) ==
    IF values = << >>
    THEN <<"ValueError", "empty values">>
    ELSE [min_val |-> SeqMin(values),
          max_val |-> SeqMax(values),
          avg_val |-> <<SeqSum(values), Len(values)>>,
          std_dev |-> IF Len(values) > 1
                      THEN <<Len(values) * SeqSumSq(values) - SeqSum(values) * SeqSum(values),
                             Len(values) * Len(values)>>
                      ELSE <<0, 1>>,
          count   |-> Len(values)]

\* one cell group of the statistics table of generate_report, with the same
\* fractions: min(values), max(values), sum(values) / len(values), np.std
report_stats(values) ==
    IF values = << >>
    THEN <<"ValueError", "empty values">>
    ELSE [min   |-> SeqMin(values),
          max   |-> SeqMax(values),
          avg   |-> <<SeqSum(values), Len(values)>>,
          stdev |-> IF Len(values) > 1
                    THEN <<Len(values) * SeqSumSq(values) - SeqSum(values) * SeqSum(values),
                           Len(values) * Len(values)>>
                    ELSE <<0, 1>>]

\* the body of compute_statistics: one <<suite, stats>> per suite, in order
compute_statistics(data_tuple, metric) ==
    [i \in 1..Len(data_tuple) |-> <<data_tuple[i][1], from_values(data_tuple[i][2])>>]

\* the arguments of one call: obj names the tuple object that is passed
Request(o, dt, m) == [obj |-> o, data_tuple |-> dt, metric |-> m]
\* what two calls have in common when their arguments are equal by content
Content(r) == <<r.data_tuple, r.metric>>
\* mutant: the key is the identity of the argument object
make_key_identity(r) == <<r.obj>>
\* functools' _make_key for a positional call: the arguments, compared by ==
make_key(r) == <<r.data_tuple, r.metric>>

Filler(i) == Request(100 + i, << <<"f", <<i>> >> >>, "m1")
Requests ==
    { Request(1, << <<"a", <<1, 2>> >> >>, "m1"),
      Request(2, << <<"a", <<1, 2>> >> >>, "m1"),     \* equal content, other object
      Request(3, << <<"a", <<2, 1>> >> >>, "m1"),     \* other order of values
      Request(4, << <<"b", <<1, 2>> >> >>, "m1"),     \* other suite name
      Request(5, << <<"a", <<1, 2>> >> >>, "m2"),     \* other metric
      Request(6, << <<"f", <<1>> >> >>, "m1") }        \* the content of Filler(1)

Entry(r) == [key |-> make_key(r), value |-> compute_statistics(r.data_tuple, r.metric),
             args |-> r]
\* a cache that earlier calls have filled with n entries, Filler(1) the oldest
Prefilled(n) == [i \in 1..n |-> Entry(Filler(i))]
Callers == 1..NumCallers
Keys(c) == {c[i].key : i \in 1..Len(c)}
Find(c, k) == CHOOSE i \in 1..Len(c) : c[i].key = k
\* mutant: a hit leaves the order of the entries alone
MoveToEnd_Keep(c, i) == c
\* the linked list after a hit: the entry becomes the most recently used
MoveToEnd(c, i) == SelectSeq(c, LAMBDA e : e.key # c[i].key) \o <<c[i]>>
\* the linked list after a miss has been computed
Insert(c, e) ==
    IF e.key \in Keys(c) THEN c                       \* stored meanwhile by another call
    ELSE IF Len(c) >= maxsize THEN Tail(c) \o <<e>>   \* full: the oldest entry goes
    ELSE c \o <<e>>
NoResult == [value |-> << >>, src |-> << >>]
\* the order of last use after content k has been used
Used(rec, k) == SelectSeq(rec, LAMBDA x : x # k) \o <<k>>

CacheInit ==
    /\ cache \in {Prefilled(0), Prefilled(maxsize - 1), Prefilled(maxsize)}
    /\ cpc = [c \in Callers |-> "idle"]
    /\ creq = [c \in Callers |-> << >>]
    /\ cgot = [c \in Callers |-> NoResult]
    /\ calls = 0
    /\ recency = [i \in 1..Len(cache) |-> Content(cache[i].args)]

\* no thread is calling compute_statistics
CacheIdle ==
    /\ cache = << >>
    /\ cpc = << >>
    /\ creq = << >>
    /\ cgot = << >>
    /\ calls = 0
    /\ recency = << >>

\* compute_statistics(r.data_tuple, r.metric) is called: the wrapper looks the
\* key up; on a hit it returns the stored value, on a miss it runs the body
CallStatistics(c, r) ==
    /\ cpc[c] = "idle"
    /\ calls < MaxCalls
    /\ calls' = calls + 1
    /\ creq' = [creq EXCEPT ![c] = r]
    /\ IF make_key(r) \in Keys(cache)
       THEN /\ cache' = MoveToEnd(cache, Find(cache, make_key(r)))
            /\ cgot' = [cgot EXCEPT ![c] =
                           [value |-> cache[Find(cache, make_key(r))].value,
                            src |-> cache[Find(cache, make_key(r))].args]]
            /\ recency' = Used(recency, Content(r))
            /\ UNCHANGED cpc
       ELSE /\ cpc' = [cpc EXCEPT ![c] = "computing"]
            /\ UNCHANGED <<cache, cgot, recency>>
    /\ UNCHANGED <<fnVars, runVars, inputVars, mainVars, futures, queue, pc, outcome, backendVars>>

\* the body has returned: the wrapper stores the result unless the key is there
ReturnStatistics(c) ==
    /\ cpc[c] = "computing"
    /\ cache' = Insert(cache, Entry(creq[c]))
    /\ cgot' = [cgot EXCEPT ![c] = [value |-> Entry(creq[c]).value, src |-> creq[c]]]
    /\ cpc' = [cpc EXCEPT ![c] = "idle"]
    /\ recency' = IF cache' = cache THEN recency ELSE Used(recency, Content(creq[c]))
    /\ UNCHANGED <<creq, calls>>
    /\ UNCHANGED <<fnVars, runVars, inputVars, mainVars, futures, queue, pc, outcome, backendVars>>

\* no function is under study
FnIdle ==
    /\ arg = << >>
    /\ res = << >>
    /\ fpc = "idle"

(* --------------------------- specifications --------------------------- *)
Init == BatchInit(Batches) /\ CacheIdle /\ FnIdle

Next ==
    \/ Submit
    \/ \E j \in JobIds : StartJob(j)
    \/ \E j \in JobIds : RunJob(j)
    \/ \E j \in JobIds : Collect(j)
    \/ Return

Spec == Init /\ [][Next]_vars

\* the worker threads and the calling thread keep being scheduled
FairSpec == Spec /\ WF_vars(Next)

\* the batches whose jobs are followed step by step
RenderBatches ==
    {Batch(ValidData, <<"m1">>, st, {}) : st \in Styles}
    \cup {Batch(ValidData, <<"m1">>, ChartStyle("default", FALSE), unw) :
             unw \in {u \in SUBSET Dests(<<"m1">>) : Cardinality(u) <= MaxUnwritable}}
    \cup {Batch(NegativeData, <<"m2">>, ChartStyle("default", FALSE), {}),
          Batch(ValidData, <<"zz">>, ChartStyle("default", FALSE), {})}

RenderInit == BatchInit(RenderBatches) /\ CacheIdle /\ FnIdle

\* the jobs whose statements interleave with every other thread (the bar and
\* the pie chart); the other jobs run their chart function without interruption
FineKinds == {"bar", "pie"}
FineIds == {j \in 1..Len(futures) : futures[j].kind \in FineKinds}

RenderNext ==
    \/ Submit
    \/ \E j \in JobIds : StartJob(j)
    \/ \E j \in FineIds : Begin(j)
    \/ \E j \in FineIds : StyleUseStep(j)
    \/ \E j \in FineIds : SetPaletteStep(j)
    \/ \E j \in FineIds : CacheStore(j)
    \/ \E j \in FineIds : Subplots(j)
    \/ \E j \in FineIds : Draw(j)
    \/ \E j \in FineIds : Save(j)
    \/ \E j \in FineIds : Close(j)
    \/ \E j \in (1..Len(futures)) \ FineIds : RunJob(j)
    \/ \E j \in JobIds : Collect(j)
    \/ Return

RenderSpec == RenderInit /\ [][RenderNext]_vars

(* ----------------------- the functions on their own ------------------- *)
SeqsUpTo(S, n) == UNION {[1..k -> S] : k \in 0..n}
Call(f, x) == [fn |-> f, in |-> x]
MetricNames == {"m1", "m2", "m3", "zz"}

\* generate_all_charts(data, metrics, out_dir): the jobs it has submitted
generate_all_charts(ms) == BatchJobs(ms)
\* a list of distinct metrics whose names contain "_vs_"
VsMetrics == <<"c_vs_a", "b", "a", "b_vs_c">>
JobListCalls ==
    {Call("generate_all_charts", ms) : ms \in SeqsUpTo(MetricNames, MaxMetrics) \cup {VsMetrics}}
\* the file name an f-string such as f'{metric_y}_vs_{metric_x}_scatter.png'
\* renders: the pieces of the destination joined into one string
RECURSIVE file_name(_)
file_name(dest) == IF dest = << >> THEN "" ELSE Head(dest) \o file_name(Tail(dest))
ListJobs ==
    /\ fpc = "idle"
    /\ arg.fn = "generate_all_charts"
    /\ res' = generate_all_charts(arg.in)
    /\ fpc' = "done"
    /\ UNCHANGED <<arg, cacheVars, runVars, inputVars, mainVars, futures, queue, pc, outcome, backendVars>>

\* datasets of up to two suites "a", "b" whose points have the keys m1 and m2,
\* or m1 only
PointShapes == {Point(10, 1), [k \in {"m1"} |-> 9]}
SuitePoints == SeqsUpTo(PointShapes, MaxPoints)
SmallDatasets ==
    {<< >>}
    \cup {<< <<"a", pa>> >> : pa \in SuitePoints}
    \cup {<< <<"a", pa>>, <<"b", pb>> >> : pa \in SuitePoints, pb \in SuitePoints}

\* a function decorated with validate_data_integrity is called with dataset d
ValidateCalls == {Call("validate_data_integrity", d) : d \in SmallDatasets}
Validate ==
    /\ fpc = "idle"
    /\ arg.fn = "validate_data_integrity"
    /\ res' = validate_data_integrity(arg.in)
    /\ fpc' = "done"
    /\ UNCHANGED <<arg, cacheVars, runVars, inputVars, mainVars, futures, queue, pc, outcome, backendVars>>

\* JSON values as json.load returns them
Num(n) == [t |-> "num", v |-> n]
Str(x) == [t |-> "str", v |-> x]
Arr(elems) == [t |-> "arr", v |-> elems]
\* a dict, as the sequence of its <<key, value>> items
Obj(items) == [t |-> "obj", v |-> items]
\* a point dict as the model's data point: key -> value
PointOf(o) == [k \in {o.v[i][1] : i \in 1..Len(o.v)} |->
                 (CHOOSE i \in 1..Len(o.v) : o.v[i][1] = k) ]
PointDict(o) == [k \in DOMAIN PointOf(o) |-> o.v[PointOf(o)[k]][2]]

\* the first error of the loop over one suite's list, or NoError
RECURSIVE PointsError(_, _)
PointsError(name, elems) ==
    IF elems = << >> THEN NoError
    ELSE IF Head(elems).t # "obj"
         THEN <<"PerformanceDataError", "error_loading", "point_not_dict", name>>
         ELSE PointsError(name, Tail(elems))
\* the first error of the loop over the suites, or NoError
RECURSIVE SuitesError(_)
SuitesError(items) ==
    IF items = << >> THEN NoError
    ELSE IF Head(items)[2].t # "arr"
         THEN <<"PerformanceDataError", "error_loading", "suite_not_list", Head(items)[1]>>
         ELSE IF PointsError(Head(items)[1], Head(items)[2].v) # NoError
              THEN PointsError(Head(items)[1], Head(items)[2].v)
              ELSE SuitesError(Tail(items))
\* validated_data: the suites with their points, values as they were loaded
Loaded(items) ==
    [s \in 1..Len(items) |->
        <<items[s][1], [i \in 1..Len(items[s][2].v) |-> PointDict(items[s][2].v[i])]>>]
\* load_data(file_path): <<"ok", data>> or the exception it raises; an error
\* raised inside the try block is wrapped by the except Exception clause
load_data(f) ==
    IF f.file = "missing" THEN <<"FileNotFoundError", "not_found">>
    ELSE IF f.file = "directory" THEN <<"ValueError", "not_a_file">>
    ELSE IF f.file = "invalid_json" THEN <<"PerformanceDataError", "invalid_json">>
    ELSE IF f.raw.t # "obj"
         THEN <<"PerformanceDataError", "error_loading", "root_not_dict">>
    ELSE IF SuitesError(f.raw.v) # NoError THEN SuitesError(f.raw.v)
    ELSE <<"ok", Loaded(f.raw.v)>>

File(kind, raw) == [file |-> kind, raw |-> raw]
FieldValues == {Num(1), Str("fast")}
RawPoints == {Obj(<< <<"m1", v>> >>) : v \in FieldValues}
Elements == RawPoints \cup {Num(5)}
SuiteValues == {Arr(e) : e \in SeqsUpTo(Elements, MaxPoints)} \cup {Num(7)}
Roots ==
    {Num(0), Arr(<< >>), Obj(<< >>)}
    \cup {Obj(<< <<"a", sa>> >>) : sa \in SuiteValues}
    \cup {Obj(<< <<"a", sa>>, <<"b", sb>> >>) : sa \in SuiteValues, sb \in SuiteValues}
Files ==
    {File("missing", Num(0)), File("directory", Num(0)), File("invalid_json", Num(0))}
    \cup {File("json", r) : r \in Roots}

LoadCalls == {Call("load_data", f) : f \in Files}
Load ==
    /\ fpc = "idle"
    /\ arg.fn = "load_data"
    /\ res' = load_data(arg.in)
    /\ fpc' = "done"
    /\ UNCHANGED <<arg, cacheVars, runVars, inputVars, mainVars, futures, queue, pc, outcome, backendVars>>

\* a call with a dataset and a metric name
DataMetric(d, m) == [data |-> d, metric |-> m]
MetricCalls == {Call("validate_metric", DataMetric(d, m)) : d \in SmallDatasets, m \in MetricNames}
ValidateMetric ==
    /\ fpc = "idle"
    /\ arg.fn = "validate_metric"
    /\ res' = validate_metric(arg.in.data, arg.in.metric)
    /\ fpc' = "done"
    /\ UNCHANGED <<arg, cacheVars, runVars, inputVars, mainVars, futures, queue, pc, outcome, backendVars>>

\* what get_metric_values raises: the error of validate_metric, or the
\* KeyError of point[metric] at a point that has no such key
MetricValuesError(d, metric) ==
    IF validate_metric(d, metric) # NoError THEN validate_metric(d, metric)
    ELSE IF \E s \in 1..Len(d) : \E i \in 1..Len(d[s][2]) : metric \notin DOMAIN d[s][2][i]
         THEN <<"KeyError", metric>>
         ELSE NoError
ValuesCalls == {Call("get_metric_values", DataMetric(d, m)) : d \in SmallDatasets, m \in MetricNames}
GetMetricValues ==
    /\ fpc = "idle"
    /\ arg.fn = "get_metric_values"
    /\ res' = IF MetricValuesError(arg.in.data, arg.in.metric) # NoError
              THEN <<"raise", MetricValuesError(arg.in.data, arg.in.metric)>>
              ELSE <<"return", get_metric_values(arg.in.data, arg.in.metric)>>
    /\ fpc' = "done"
    /\ UNCHANGED <<arg, cacheVars, runVars, inputVars, mainVars, futures, queue, pc, outcome, backendVars>>

\* the statistics of one suite's values, as from_values and as the report
StatValues == {-3, 8, 10, 12}
StatsCalls == {Call("statistics", v) : v \in SeqsUpTo(StatValues, MaxValues)}
Statistics ==
    /\ fpc = "idle"
    /\ arg.fn = "statistics"
    /\ res' = [stats |-> from_values(arg.in), report |-> report_stats(arg.in)]
    /\ fpc' = "done"
    /\ UNCHANGED <<arg, cacheVars, runVars, inputVars, mainVars, futures, queue, pc, outcome, backendVars>>

\* the charts main generates one after the other with --chart-type all
\* (k names the kind by its place in MetricJobs: bar, line, pie, histogram)
RECURSIVE KindJobs(_, _)
KindJobs(k, ms) ==
    IF ms = << >> THEN << >>
    ELSE <<MetricJobs(Head(ms))[k]>> \o KindJobs(k, Tail(ms))
MainJobs(ms) ==
    KindJobs(1, ms) \o KindJobs(2, ms) \o ScatterJobs(ms)
    \o KindJobs(3, ms) \o KindJobs(4, ms) \o <<HeatmapJob(ms)>>
\* the exception a chart function raises on loaded data, if any: the
\* decorator and validate_metric, then point[metric] and the conversion of
\* a value that is no number
LoadedJobError(d, job) ==
    IF ChartValidation(d, job) # NoError THEN ChartValidation(d, job)
    ELSE IF \E m \in {job.metrics[i] : i \in 1..Len(job.metrics)} :
               MetricValuesError(d, m) # NoError
         THEN <<"KeyError", job.metrics>>
    ELSE IF \E m \in {job.metrics[i] : i \in 1..Len(job.metrics)} :
               \E s \in 1..Len(d) : \E i \in 1..Len(d[s][2]) : d[s][2][i][m].t # "num"
         THEN <<"ValueError", job.metrics>>
    ELSE NoError
\* the destinations written before the first job that raises
RECURSIVE Generated(_, _)
Generated(d, jobs) ==
    IF jobs = << >> \/ LoadedJobError(d, Head(jobs)) # NoError THEN << >>
    ELSE <<Head(jobs).dest>> \o Generated(d, Tail(jobs))
RECURSIVE FirstJobError(_, _)
FirstJobError(d, jobs) ==
    IF jobs = << >> THEN NoError
    ELSE IF LoadedJobError(d, Head(jobs)) # NoError THEN LoadedJobError(d, Head(jobs))
    ELSE FirstJobError(d, Tail(jobs))
\* a set of at most three names as a list
AsList(S) == CHOOSE f \in [1..Cardinality(S) -> S] : \A x \in S : \E i \in DOMAIN f : f[i] = x
\* args.metrics when --metrics is not given
DefaultMetrics(d) ==
    IF get_available_metrics_uncached(d) = {}
    THEN <<"averageDuration", "throughput", "peakMemoryUsage">>
    ELSE AsList(get_available_metrics_uncached(d))
\* the interpreter ends with status 1 after an exception that nothing
\* caught, and with status 0 when main returns
Process(raised, generated) ==
    [raised |-> raised, status |-> IF raised = NoError THEN 0 ELSE 1, generated |-> generated]
\* python charts.py <file>: main with the default options
main(f) ==
    IF load_data(f)[1] # "ok"
    THEN Process(load_data(f), << >>)
    ELSE LET d    == load_data(f)[2]
             jobs == MainJobs(DefaultMetrics(d))
         IN  Process(FirstJobError(d, jobs), Generated(d, jobs))

\* the error of the statistics loop of generate_report for one metric and
\* one suite of loaded data: result[metric], min(values), sum(values)
CellError(pts, m) ==
    IF \E i \in 1..Len(pts) : m \notin DOMAIN pts[i] THEN <<"KeyError", m>>
    ELSE IF pts = << >> THEN <<"ValueError", "min() arg is an empty sequence">>
    ELSE IF \E i \in 1..Len(pts) : pts[i][m].t # "num" THEN <<"TypeError", m>>
    ELSE NoError
\* the first error of that loop, metrics outside, suites inside
LoadedReportError(d, ms) ==
    LET bad == {c \in (1..Len(ms)) \X (1..Len(d)) : CellError(d[c[2]][2], ms[c[1]]) # NoError}
        first == CHOOSE c \in bad : \A e \in bad : c[1] < e[1] \/ (c[1] = e[1] /\ c[2] <= e[2])
    IN  IF bad = {} THEN NoError ELSE CellError(d[first[2]][2], ms[first[1]])
\* the charts the batch inside generate_report leaves: every job runs
RECURSIVE LoadedProduced(_, _)
LoadedProduced(d, jobs) ==
    IF jobs = << >> THEN << >>
    ELSE (IF LoadedJobError(d, Head(jobs)) = NoError THEN <<Head(jobs).dest>> ELSE << >>)
         \o LoadedProduced(d, Tail(jobs))
\* the arguments of main: metrics is None or the list after --metrics
None == <<"None">>
Args(f, ms, lm, rp) == [file |-> f, metrics |-> ms, list_metrics |-> lm, report |-> rp]
\* main returns after printing the available metrics
Listed(ms) == [raised |-> NoError, status |-> 0, generated |-> << >>, listed |-> ms]
\* python charts.py <file> [--metrics ...] [--list-metrics] [--report]
run_main(a) ==
    IF load_data(a.file)[1] # "ok"
    THEN Process(load_data(a.file), << >>)
    ELSE LET d  == load_data(a.file)[2]
             ms == IF a.metrics = None THEN DefaultMetrics(d) ELSE a.metrics
         IN  IF a.metrics = None /\ a.list_metrics
             THEN Listed(get_available_metrics_uncached(d))
             ELSE IF a.report
             THEN Process(LoadedReportError(d, ms),
                          LoadedProduced(d, BatchJobs(ms))
                          \o (IF LoadedReportError(d, ms) = NoError
                              THEN << <<"report.html">> >> ELSE << >>))
             ELSE Process(FirstJobError(d, MainJobs(ms)), Generated(d, MainJobs(ms)))

MainArgs ==
    {Args(f, ms, lm, rp) : f \in Files, ms \in {None, <<"m1">>}, lm \in BOOLEAN, rp \in BOOLEAN}
OptionCalls == {Call("run_main", a) : a \in MainArgs}
RunMain ==
    /\ fpc = "idle"
    /\ arg.fn = "run_main"
    /\ res' = run_main(arg.in)
    /\ fpc' = "done"
    /\ UNCHANGED <<arg, cacheVars, runVars, inputVars, mainVars, futures, queue, pc, outcome, backendVars>>

\* the exception a chart function raises on dataset d, if any
JobError(d, job) ==
    IF ChartValidation(d, job) # NoError THEN ChartValidation(d, job)
    ELSE IF \E i \in 1..Len(job.metrics) : MetricValuesError(d, job.metrics[i]) # NoError
         THEN <<"KeyError", job.metrics>>
    ELSE DrawError(d, job)
\* the destinations the batch inside generate_report writes
Produced(d, ms) ==
    {BatchJobs(ms)[j].dest : j \in {i \in 1..Len(BatchJobs(ms)) : JobError(d, BatchJobs(ms)[i]) = NoError}}
\* the destinations main leaves with --chart-type all and --metrics ms: the
\* chart functions are called one after the other in the order of MainJobs,
\* and the first exception ends the process
sequential_files(d, ms) ==
    LET jobs == MainJobs(ms)
        bad  == {i \in 1..Len(jobs) : JobError(d, jobs[i]) # NoError}
        stop == IF bad = {} THEN Len(jobs) + 1 ELSE SetMin(bad)
    IN  {jobs[i].dest : i \in 1..(stop - 1)}
\* the files of the two paths for one dataset and metric list
artifacts(d, ms) == [sequential |-> sequential_files(d, ms), batch |-> Produced(d, ms)]
\* --metrics takes at least one name
ArtifactLists == {<<"m1">>, <<"m2">>, <<"m1", "m2">>, <<"m2", "m1">>, <<"m1", "zz">>, <<"zz", "m1">>}
ArtifactCalls == {Call("artifacts", DataMetric(d, ms)) : d \in Datasets, ms \in ArtifactLists}
Artifacts ==
    /\ fpc = "idle"
    /\ arg.fn = "artifacts"
    /\ res' = artifacts(arg.in.data, arg.in.metric)
    /\ fpc' = "done"
    /\ UNCHANGED <<arg, cacheVars, runVars, inputVars, mainVars, futures, queue, pc, outcome, backendVars>>

\* the error of the statistics loop of generate_report for one metric and suite
StatsCellError(pts, m) ==
    IF \E i \in 1..Len(pts) : m \notin DOMAIN pts[i] THEN <<"KeyError", m>>
    ELSE IF pts = << >> THEN <<"ValueError", "min() arg is an empty sequence">>
    ELSE NoError
ReportError(d, ms) ==
    LET bad == {c \in (1..Len(ms)) \X (1..Len(d)) : StatsCellError(d[c[2]][2], ms[c[1]]) # NoError}
        first == CHOOSE c \in bad : \A e \in bad : c[1] < e[1] \/ (c[1] = e[1] /\ c[2] <= e[2])
    IN  IF bad = {} THEN NoError ELSE StatsCellError(d[first[2]][2], ms[first[1]])
\* the img elements of the report: four per metric, one per pair of metrics,
\* and the heatmap, each charts/<name>
ReportLinks(ms) ==
    {PerMetricJobs(ms)[j].dest : j \in 1..Len(PerMetricJobs(ms))}
    \cup {ScatterJobs(ms)[j].dest : j \in 1..Len(ScatterJobs(ms))}
    \cup {HeatmapJob(ms).dest}
\* generate_report(data, metrics, out_dir): the batch, the statistics, the page
generate_report(d, ms) ==
    [raised   |-> ReportError(d, ms),
     produced |-> Produced(d, ms),
     links    |-> IF ReportError(d, ms) = NoError THEN ReportLinks(ms) ELSE {}]
ReportCalls == {Call("generate_report", DataMetric(d, ms)) : d \in Datasets, ms \in MetricLists}
Report ==
    /\ fpc = "idle"
    /\ arg.fn = "generate_report"
    /\ res' = generate_report(arg.in.data, arg.in.metric)
    /\ fpc' = "done"
    /\ UNCHANGED <<arg, cacheVars, runVars, inputVars, mainVars, futures, queue, pc, outcome, backendVars>>

\* the stacked branch of generate_bar_chart; series: the value lists of the
\* suites in the order of metric_values
\* iteration_values of iteration i (counted from 0)
IterationValues(series, i) ==
    [s \in 1..Len(series) |-> IF i < Len(series[s]) THEN series[s][i + 1] ELSE 0]
\* the loop from iteration i on: one ax.bar call per iteration, with the
\* heights and the bottoms it is given
RECURSIVE StackedFrom(_, _, _, _)
StackedFrom(series, i, bottom, n) ==
    IF i >= n THEN << >>
    ELSE <<[values |-> IterationValues(series, i), bottom |-> bottom]>>
         \o StackedFrom(series, i + 1,
                        [s \in 1..Len(series) |-> bottom[s] + IterationValues(series, i)[s]], n)
max_iterations(series) == SeqMax([s \in 1..Len(series) |-> Len(series[s])])
\* mutant: the loop starts at the second iteration
stacked_bars_SkipFirst(series) ==
    IF \E s \in 1..Len(series) : Len(series[s]) > 1
    THEN StackedFrom(series, 1, [s \in 1..Len(series) |-> 0], max_iterations(series))
    ELSE << >>
\* the ax.bar calls of a stacked chart; none when no suite has two values
stacked_bars(series) ==
    IF \E s \in 1..Len(series) : Len(series[s]) > 1
    THEN StackedFrom(series, 0, [s \in 1..Len(series) |-> 0], max_iterations(series))
    ELSE << >>
StackValues == {1, 2, 3}
StackSeries == SeqsUpTo(SeqsUpTo(StackValues, MaxValues), MaxSuites)
StackCalls == {Call("stacked_bars", x) : x \in StackSeries}
Stack ==
    /\ fpc = "idle"
    /\ arg.fn = "stacked_bars"
    /\ res' = stacked_bars(arg.in)
    /\ fpc' = "done"
    /\ UNCHANGED <<arg, cacheVars, runVars, inputVars, mainVars, futures, queue, pc, outcome, backendVars>>

\* mutant: the columns are filled in the reverse order of the metric list
heatmap_matrix_Reversed(d, ms) ==
    [rows   |-> [i \in 1..Len(d) |-> d[i][1]],
     cols   |-> ms,
     matrix |-> [i \in 1..Len(d) |-> [j \in 1..Len(ms) |->
                   <<SeqSum([p \in 1..Len(d[i][2]) |-> d[i][2][p][ms[Len(ms) + 1 - j]]]),
                     Len(d[i][2])>>]]]
\* the matrix of generate_heatmap with its row and column labels: cell
\* (i, j) is np.mean of metric j over the points of suite i, kept as the
\* fraction <<sum, count>>
heatmap_matrix(d, ms) ==
    [rows   |-> [i \in 1..Len(d) |-> d[i][1]],
     cols   |-> ms,
     matrix |-> [i \in 1..Len(d) |-> [j \in 1..Len(ms) |->
                   <<SeqSum([p \in 1..Len(d[i][2]) |-> d[i][2][p][ms[j]]]),
                     Len(d[i][2])>>]]]
\* datasets of suites "a", "b" with one to MaxPoints points of the keys m1, m2
HeatPoints == {Point(10, 1), Point(12, 2), Point(8, -3)}
HeatSuites == SeqsUpTo(HeatPoints, MaxPoints) \ {<< >>}
HeatDatasets ==
    {<< <<"a", pa>> >> : pa \in HeatSuites}
    \cup {<< <<"a", pa>>, <<"b", pb>> >> : pa \in HeatSuites, pb \in HeatSuites}
HeatCalls ==
    {Call("heatmap_matrix", DataMetric(d, ms)) :
        d \in HeatDatasets, ms \in SeqsUpTo({"m1", "m2"}, 2)}
Heatmap ==
    /\ fpc = "idle"
    /\ arg.fn = "heatmap_matrix"
    /\ res' = heatmap_matrix(arg.in.data, arg.in.metric)
    /\ fpc' = "done"
    /\ UNCHANGED <<arg, cacheVars, runVars, inputVars, mainVars, futures, queue, pc, outcome, backendVars>>

\* the marker list of generate_line_chart and the entries of the colormap
\* 'tab10' that cm.get_cmap returns
marker_styles == <<"o", "s", "D", "^", "v", "<", ">", "p", "*", "h", "H", "+", "x", "d">>
tab10 == <<"blue", "orange", "green", "red", "purple", "brown", "pink", "gray", "olive", "cyan">>
\* np.linspace(0, 1, n)[k] put through the colormap: the position k / (n - 1)
\* is scaled by the number of entries and truncated, and 1.0 takes the last
Sampled(k, count) ==
    IF count = 1 THEN 0
    ELSE IF k = count - 1 THEN Len(tab10) - 1
    ELSE (Len(tab10) * k) \div (count - 1)
\* colors = cm.get_cmap('tab10')(np.linspace(0, 1, n)), for n series
colors(count) == [k \in 1..count |-> tab10[Sampled(k - 1, count) + 1]]
\* marker and colour of the series at position i (from 0) of n series: the
\* line chart takes colors[i % len(colors)], the scatter chart colors[i]
series_style(k, count) ==
    [marker |-> marker_styles[(k % Len(marker_styles)) + 1],
     color  |-> colors(count)[(k % Len(colors(count))) + 1]]
MaxSeries == 16
StyleCalls ==
    UNION {{Call("series_style", [i |-> k, n |-> c]) : k \in 0..(c - 1)} : c \in 1..MaxSeries}
SeriesStyle ==
    /\ fpc = "idle"
    /\ arg.fn = "series_style"
    /\ res' = series_style(arg.in.i, arg.in.n)
    /\ fpc' = "done"
    /\ UNCHANGED <<arg, cacheVars, runVars, inputVars, mainVars, futures, queue, pc, outcome, backendVars>>

\* np.polyfit(x, y, 1): the least-squares line through the points, slope and
\* intercept kept as the fractions <<numerator, denominator>>. When every x
\* is the same positive value the system has rank one and the solver returns
\* the solution of least norm in the scaled columns.
polyfit(xs, ys) ==
    LET count == Len(xs)
        Sx    == SeqSum(xs)
        Sy    == SeqSum(ys)
        Sxx   == SeqSum([k \in 1..count |-> xs[k] * xs[k]])
        Sxy   == SeqSum([k \in 1..count |-> xs[k] * ys[k]])
        D     == count * Sxx - Sx * Sx
    IN  IF D # 0
        THEN [slope |-> <<count * Sxy - Sx * Sy, D>>, intercept |-> <<Sy * Sxx - Sx * Sxy, D>>]
        ELSE [slope |-> <<Sy, 2 * count * xs[1]>>, intercept |-> <<Sy, 2 * count>>]
\* mutant: the line is fitted whenever the series is not empty
trend_AnyLength(xs, ys, trend_line) ==
    IF trend_line /\ Len(xs) > 0 THEN <<polyfit(xs, ys)>> ELSE << >>
\* the dashed lines plotted for one series, none or one: "if trend_line and
\* len(values) > 1"
trend(xs, ys, trend_line) ==
    IF trend_line /\ Len(xs) > 1 THEN <<polyfit(xs, ys)>> ELSE << >>
MaxFit == 3
FitPoints == {<<1, 2>>, <<2, 4>>, <<3, 6>>, <<2, 5>>, <<1, 4>>}
\* the line chart fits the values against np.arange(1, len(values) + 1), the
\* scatter chart the values of metric_y against those of metric_x
LineFits ==
    {[xs |-> [k \in 1..Len(v) |-> k], ys |-> v, trend_line |-> t] :
        v \in SeqsUpTo({2, 4, 6, 5}, MaxFit), t \in BOOLEAN}
ScatterFits ==
    {[xs |-> [k \in 1..Len(ps) |-> ps[k][1]], ys |-> [k \in 1..Len(ps) |-> ps[k][2]],
      trend_line |-> t] : ps \in SeqsUpTo(FitPoints, MaxFit), t \in BOOLEAN}
TrendCalls == {Call("trend", f) : f \in LineFits \cup ScatterFits}
Trend ==
    /\ fpc = "idle"
    /\ arg.fn = "trend"
    /\ res' = trend(arg.in.xs, arg.in.ys, arg.in.trend_line)
    /\ fpc' = "done"
    /\ UNCHANGED <<arg, cacheVars, runVars, inputVars, mainVars, futures, queue, pc, outcome, backendVars>>

\* one call of a chart function in a fresh process (default rcParams, empty
\* style cache), c = [kind, data, metrics, size, style]; size is << >> for
\* size_metric=None and <<name>> otherwise, and only the scatter chart has it.
\* The result holds the exception raised, rcParams, whether the output
\* directory was created and whether the file was saved. In source order: the
\* decorator, validate_metric for the metrics, create_style_config,
\* validate_metric for the size metric, ensure_output_directory, the drawing
\* calls, plt.savefig.
Effects(e, r, dir, file) == [raised |-> e, rc |-> r, mkdir |-> dir, saved |-> file]
chart_call(c) ==
    LET job == Job(c.kind, c.metrics, <<"chart.png">>)
    IN  IF ChartValidation(c.data, job) # NoError
        THEN Effects(ChartValidation(c.data, job), StyleUse("default"), FALSE, FALSE)
        ELSE IF c.kind = "scatter" /\ c.size # << >> /\ validate_metric(c.data, c.size[1]) # NoError
        THEN Effects(validate_metric(c.data, c.size[1]), StyleApplied(c.style), FALSE, FALSE)
        ELSE IF DrawError(c.data, job) # NoError
        THEN Effects(DrawError(c.data, job), StyleApplied(c.style), TRUE, FALSE)
        ELSE Effects(NoError, StyleApplied(c.style), TRUE, TRUE)
ChartCall(k, d, ms, sz, st) == [kind |-> k, data |-> d, metrics |-> ms, size |-> sz, style |-> st]
ChartNames == {"m1", "m2", "zz"}
ChartCalls ==
    {Call("chart_call", ChartCall(k, d, <<m>>, << >>, st)) :
        k \in {"bar", "line", "pie", "histogram"}, d \in Datasets, m \in ChartNames, st \in Styles}
    \cup {Call("chart_call", ChartCall("scatter", d, <<x, y>>, sz, st)) :
        d \in Datasets, x \in ChartNames, y \in ChartNames,
        sz \in {<< >>} \cup {<<m>> : m \in ChartNames}, st \in Styles}
    \cup {Call("chart_call", ChartCall("heatmap", d, ms, << >>, st)) :
        d \in Datasets, ms \in MetricLists, st \in Styles}
Chart ==
    /\ fpc = "idle"
    /\ arg.fn = "chart_call"
    /\ res' = chart_call(arg.in)
    /\ fpc' = "done"
    /\ UNCHANGED <<arg, cacheVars, runVars, inputVars, mainVars, futures, queue, pc, outcome, backendVars>>

MainCalls == {Call("main", f) : f \in Files}
Main ==
    /\ fpc = "idle"
    /\ arg.fn = "main"
    /\ res' = main(arg.in)
    /\ fpc' = "done"
    /\ UNCHANGED <<arg, cacheVars, runVars, inputVars, mainVars, futures, queue, pc, outcome, backendVars>>

FnCalls ==
    ArtifactCalls \cup ChartCalls \cup TrendCalls \cup StyleCalls \cup HeatCalls \cup StackCalls \cup ReportCalls \cup OptionCalls \cup MainCalls \cup JobListCalls \cup ValidateCalls \cup LoadCalls \cup MetricCalls \cup ValuesCalls \cup StatsCalls
FnInit ==
    /\ arg \in FnCalls
    /\ res = << >>
    /\ fpc = "idle"
FnNext ==
    \/ ListJobs
    \/ Validate
    \/ Load
    \/ ValidateMetric
    \/ GetMetricValues
    \/ Statistics
    \/ Main
    \/ RunMain
    \/ Report
    \/ Stack
    \/ Heatmap
    \/ SeriesStyle
    \/ Trend
    \/ Chart
    \/ Artifacts

(* --------------------------- a repeated run --------------------------- *)
\* the destinations this run of the batch has written
Written == {futures[j].dest : j \in {i \in 1..Len(futures) : saved[i] # 0}}
\* the files in the output directory
FilesLeft == left \cup Written

\* the caller makes the same call of generate_all_charts_optimized once more:
\* the files, pyplot's rcParams and open figures and create_style_config's
\* cache are those the first run left
RunAgain ==
    /\ mainpc = "returned"
    /\ run = 1
    /\ run' = 2
    /\ left' = FilesLeft
    /\ mainpc' = "submit"
    /\ futures' = << >>
    /\ queue' = << >>
    /\ pc' = [j \in DOMAIN pc |-> "unsubmitted"]
    /\ outcome' = [j \in DOMAIN pc |-> << >>]
    /\ completed_charts' = EmptyBag
    /\ ret' = << >>
    /\ seen' = [j \in DOMAIN pc |-> NotSeen]
    /\ laid' = [j \in DOMAIN pc |-> 0]
    /\ saved' = [j \in DOMAIN pc |-> 0]
    \* the figures the first run never closed: named by the negated job number
    /\ figs' = [i \in 1..Len(figs) |-> 0 - figs[i]]
    /\ UNCHANGED <<cacheVars, fnVars, inputVars, log, rc, styleCache>>

RerunNext ==
    \/ RenderNext
    \/ RunAgain

(* ------------------- create_style_config, call by call ------------------- *)
\* the styles of the chart calls of one process: every name the function
\* distinguishes, with and without dark mode
StyleNames == {"default", "seaborn", "ggplot", "minimal"}
CallStyles == {ChartStyle(n, d) : n \in StyleNames, d \in BOOLEAN}
\* one call create_style_config(st.name, st.dark_mode) from a chart function:
\* lru_cache returns the stored None for arguments it has seen and runs the
\* body only for new ones (the cache holds 16 keys, more than CallStyles has)
CreateStyleConfig(st) ==
    /\ mainpc = "returned"
    /\ fpc = "idle"
    /\ style' = st
    /\ rc' = IF st \in styleCache THEN rc ELSE StyleApplied(st)
    /\ styleCache' = styleCache \cup {st}
    /\ UNCHANGED <<cacheVars, fnVars, runVars, data, metrics, unwritable, mainVars,
                   futures, queue, pc, outcome, figs, seen, laid, saved>>

StyleNext == \E st \in CallStyles : CreateStyleConfig(st)

RerunSpec == RenderInit /\ [][RerunNext]_vars

\* no batch runs: threads call compute_statistics
BatchIdle ==
    /\ data = << >>
    /\ metrics = << >>
    /\ style = ChartStyle("default", FALSE)
    /\ unwritable = {}
    /\ run = 1
    /\ left = {}
    /\ mainpc = "returned"
    /\ futures = << >>
    /\ queue = << >>
    /\ pc = << >>
    /\ outcome = << >>
    /\ completed_charts = EmptyBag
    /\ log = EmptyBag
    /\ ret = << >>
    /\ rc = StyleUse("default")
    /\ styleCache = {}
    /\ figs = << >>
    /\ seen = << >>
    /\ laid = << >>
    /\ saved = << >>

CacheSpecInit == BatchIdle /\ CacheInit /\ FnIdle

StyleSpecInit == BatchIdle /\ CacheIdle /\ FnIdle

StyleSpec == StyleSpecInit /\ [][StyleNext]_vars

CacheNext ==
    \/ \E c \in Callers, r \in Requests : CallStatistics(c, r)
    \/ \E c \in Callers : ReturnStatistics(c)

CacheSpec == CacheSpecInit /\ [][CacheNext]_vars

\* no batch runs and no thread calls compute_statistics: one function is
\* applied to one argument
FnSpecInit == BatchIdle /\ CacheIdle /\ FnInit

FnSpec == FnSpecInit /\ [][FnNext]_vars

(* ------------------------------- claims ------------------------------- *)
Failed(j) == outcome[j] # << >> /\ outcome[j][1] = "exception"
Succeeded(j) == outcome[j] # << >> /\ outcome[j][1] = "result"
FailedJobs == {j \in JobIds : Failed(j)}

\* C1: when a job of the batch raises, the error is caught and logged, the
\* call does not raise, and every other job produces its artifact as if the
\* failing job had succeeded: no running job that is about to lay out or save
\* finds, as pyplot's current figure, the figure a job that raised left open
C1_ErrorIsolated ==
    /\ mainpc # "raised"
    /\ \A j \in JobIds :
          (pc[j] = "collected" /\ Failed(j)) => BagIn(<<"error", outcome[j][2]>>, log)
    /\ \A j \in JobIds :
          pc[j] \in {"draw", "save"} =>
              ~ \E k \in JobIds \ {j} : Failed(k) /\ figs # << >> /\ Gcf = k

\* C2: all N jobs are submitted, never more than max_workers jobs execute at
\* the same time, and a queued job starts only when a worker is free
C2_WorkerLimit ==
    /\ [](Cardinality(Running) <= max_workers)
    /\ [](mainpc # "submit" =>
            /\ Len(futures) = Len(BatchJobs(metrics))
            /\ \A j \in JobIds : pc[j] # "unsubmitted")
    /\ [][\A j \in JobIds :
            (pc[j] = "queued" /\ pc'[j] = "begin") => Cardinality(Running) < max_workers]_vars
\* C2 witness: all workers are busy and a submitted job waits
C2_Witness == Cardinality(Running) = max_workers /\ queue # << >>

C4_FailsFast ==
    (metrics = << >> \/ validate_data_integrity(data) # NoError) =>
        (futures = << >> /\ mainpc # "returned")

\* job j is between applying the style and closing its figure
InPortion(j) ==
    pc[j] \in {"style_use", "set_palette", "cache_store", "subplots", "draw", "save", "close"}
\* the rcParams job j's figure was created under, before that the rcParams in force
Observes(j) == IF seen[j] # NotSeen THEN seen[j] ELSE rc
\* C5: no two jobs of a batch are inside the portion from applying the style
\* to closing the figure at the same time while they observe different styles
C5_CriticalSection ==
    \A i, j \in JobIds :
        (i # j /\ InPortion(i) /\ InPortion(j)) => Observes(i) = Observes(j)

\* C6: a job lays out and saves only the figure it created itself
C6_OwnFigure ==
    \A j \in JobIds : laid[j] \in {0, j} /\ saved[j] \in {0, j}

\* C7: concurrent calls of compute_statistics with the same key run the body
\* at most once, and callers of the same content get the same result
C7_ComputeOnce ==
    /\ \A c1, c2 \in Callers :
          (c1 # c2 /\ cpc[c1] = "computing" /\ cpc[c2] = "computing")
              => make_key(creq[c1]) # make_key(creq[c2])
    /\ \A c1, c2 \in Callers :
          (cpc[c1] = "idle" /\ cpc[c2] = "idle" /\ cgot[c1] # NoResult /\ cgot[c2] # NoResult
           /\ Content(creq[c1]) = Content(creq[c2]))
              => cgot[c1].value = cgot[c2].value

CachedContents(c) == {Content(c[i].args) : i \in 1..Len(c)}
\* the cached content whose last use (a hit, or the store of a miss) is the oldest
LeastRecentlyUsed ==
    recency[SetMin({i \in 1..Len(recency) : recency[i] \in CachedContents(cache)})]
C8_Step ==
    /\ \A c \in Callers :
          \* a miss is stored into a full cache
          (/\ cpc[c] = "computing" /\ cpc'[c] = "idle"
           /\ Content(creq[c]) \notin CachedContents(cache)
           /\ Len(cache) = maxsize)
          => /\ Len(cache') = maxsize
             /\ CachedContents(cache') =
                   (CachedContents(cache) \ {LeastRecentlyUsed}) \cup {Content(creq[c])}
    /\ \A c \in Callers :
          \* the body runs only for content that is not in the cache
          (cpc[c] = "idle" /\ cpc'[c] = "computing")
          => Content(creq'[c]) \notin CachedContents(cache)
    /\ \* a hit returns the stored value and evicts nothing
       (calls' = calls + 1 /\ cpc' = cpc)
          => /\ CachedContents(cache') = CachedContents(cache)
             /\ \E c \in Callers, i \in 1..Len(cache) :
                   /\ cpc[c] = "idle" /\ creq'[c] # << >> /\ cgot'[c] # NoResult
                   /\ Content(cache[i].args) = Content(creq'[c])
                   /\ cgot'[c].value = cache[i].value
\* C8: the statistics cache never holds more than maxsize entries; a new key
\* stored into a full cache evicts exactly the least recently used entry (a
\* hit counts as a use); a key in the cache is returned without running the body
C8_BoundedLRU == [](Len(cache) <= maxsize) /\ [][C8_Step]_vars
\* C8 witness: after a hit on the oldest entry of a full cache a new key was
\* stored, and the second oldest entry went
C8_Witness ==
    /\ Len(cache) = maxsize
    /\ Content(Filler(1)) \in CachedContents(cache)
    /\ Content(Filler(2)) \notin CachedContents(cache)

\* C9: the cache is keyed by content: it never holds two entries of equal
\* content (equal requests built from different objects use one entry), and
\* what a call returns was computed from arguments of the requested content
C9_KeyedByContent ==
    /\ Cardinality(CachedContents(cache)) = Len(cache)
    /\ \A c \in Callers :
          (cpc[c] = "idle" /\ cgot[c] # NoResult) =>
              /\ Content(cgot[c].src) = Content(creq[c])
              /\ cgot[c].value = compute_statistics(creq[c].data_tuple, creq[c].metric)
\* C9 witness: a call was answered from the entry another object had made
C9_Witness ==
    \E c \in Callers :
        cpc[c] = "idle" /\ cgot[c] # NoResult /\ cgot[c].src.obj # creq[c].obj

\* C10: under fair scheduling every submitted job is executed and finished,
\* collected by the caller, and the batch call returns, also when jobs fail
C10_RunsToCompletion ==
    <>(/\ mainpc = "returned"
       /\ \A j \in JobIds : pc[j] = "collected" /\ (Failed(j) \/ Succeeded(j)))
\* C10 witness: a batch in which a job failed has returned
C10_Witness ==
    mainpc = "returned" /\ FailedJobs # {} /\ FailedJobs # JobIds

\* mutant: the bar advances only for a job that succeeded
Completed_SuccessOnly == BagCardinality(completed_charts)
\* the progress bar of tqdm(as_completed(futures), total=len(futures)):
\* completed counts the iterations of the collecting loop that are done
Completed == Cardinality({j \in JobIds : pc[j] = "collected"})
Total == Len(futures)

\* C11: the progress of a batch is completed/total: total is the number of
\* submitted jobs and is fixed once collection starts; completed starts at 0,
\* grows by one for each finished job collected, succeeded or failed, never
\* decreases, never exceeds total, and equals total when the batch returns
C11_Progress ==
    /\ [](mainpc = "submit" => Completed = 0)
    /\ [](mainpc \in {"collect", "returned"} => Total = Len(BatchJobs(metrics)))
    /\ [](Completed <= Total)
    /\ [](mainpc = "returned" => Completed = Total)
    /\ [][/\ Completed' \in {Completed, Completed + 1}
          /\ mainpc = "collect" => Total' = Total
          /\ (\E j \in JobIds : pc[j] \in {"ok", "err"} /\ pc'[j] = "collected")
                => Completed' = Completed + 1]_vars
\* C11 witness: in the middle of collection a failed job has been counted
C11_Witness ==
    /\ mainpc = "collect"
    /\ 0 < Completed /\ Completed < Total
    /\ \E j \in JobIds : pc[j] = "collected" /\ Failed(j)

\* the destinations of the jobs that neither fail validation, nor fail to
\* draw, nor have a destination that cannot be written
ExpectedDests ==
    {BatchJobs(metrics)[j].dest :
        j \in {i \in 1..Len(BatchJobs(metrics)) :
                 /\ ChartValidation(data, BatchJobs(metrics)[i]) = NoError
                 /\ DrawError(data, BatchJobs(metrics)[i]) = NoError
                 /\ BatchJobs(metrics)[i].dest \notin unwritable}}
\* C12: the set of destinations a batch leaves depends on the call only, not
\* on the completion order of its jobs, and a second run of the same batch
\* writes the same destinations again and leaves exactly the same set of files
C12_SameDestinations ==
    mainpc = "returned" =>
        /\ Written = ExpectedDests
        /\ run = 2 => (left = ExpectedDests /\ FilesLeft = left)
\* C12 witness: the second run of a batch has returned and has written files
\* while one of its jobs failed
C12_Witness ==
    /\ mainpc = "returned" /\ run = 2
    /\ Cardinality(Written) >= 3
    /\ FailedJobs # {}

Done(f) == fpc = "done" /\ arg.fn = f
\* the number of places of sequence s at which P holds
Count(s, P(_)) == Cardinality({i \in 1..Len(s) : P(s[i])})
\* the pairs of positions p < q of ms with ms[p] = x and ms[q] = y
Pairs(ms, x, y) == {pq \in (1..Len(ms)) \X (1..Len(ms)) :
                       pq[1] < pq[2] /\ ms[pq[1]] = x /\ ms[pq[2]] = y}
\* C13: for n requested metrics the batch holds one bar, line, pie and
\* histogram job per position of the list, one scatter job for each pair of
\* positions i < j with x = metrics[i] and y = metrics[j] (none when n < 2),
\* and one heatmap job over all metrics: 4n + n(n-1)/2 + 1 jobs
C13_JobList ==
    Done("generate_all_charts") =>
        LET ms == arg.in
            n  == Len(ms)
        IN  /\ 2 * Len(res) = 8 * n + n * (n - 1) + 2
            /\ \A k \in {"bar", "line", "pie", "histogram"} :
                  /\ Count(res, LAMBDA job : job.kind = k) = n
                  /\ \A m \in MetricNames :
                        Count(res, LAMBDA job : job.kind = k /\ job.metrics = <<m>>)
                            = Count(ms, LAMBDA x : x = m)
            /\ 2 * Count(res, LAMBDA job : job.kind = "scatter") = n * (n - 1)
            /\ \A x, y \in MetricNames :
                  Count(res, LAMBDA job : job.kind = "scatter" /\ job.metrics = <<x, y>>)
                      = Cardinality(Pairs(ms, x, y))
            /\ Count(res, LAMBDA job : job.kind = "heatmap") = 1
            /\ Count(res, LAMBDA job : job.kind = "heatmap" /\ job.metrics = ms) = 1
\* C13 witness: the jobs of three different metrics: 16 jobs, 3 of them scatter
C13_Witness ==
    /\ Done("generate_all_charts")
    /\ arg.in = <<"m1", "m2", "m3">>
    /\ Len(res) = 16
    /\ Count(res, LAMBDA job : job.kind = "scatter") = 3

\* point i of the points pts has other keys than the first point
Differs(pts, i) == DOMAIN pts[i] # DOMAIN pts[1]
\* C14 (as stated): the error of an inconsistent suite names the suite and the
\* differing point counted from 1 (the second point is index 2)
C14_NamesPointFromOne ==
    (Done("validate_data_integrity") /\ res # NoError /\ res[2] = "inconsistent") =>
        \E s \in 1..Len(arg.in) :
            /\ arg.in[s][1] = res[3]
            /\ res[4] \in 1..Len(arg.in[s][2])
            /\ Differs(arg.in[s][2], res[4])
\* C14 (amended): a dataset in which a point's keys differ from those of the
\* first point of its suite fails validation; the error is that of the first
\* suite in dataset order that is empty or inconsistent, and for an
\* inconsistent suite it names the suite and the position, counted from 0, of
\* its first differing point (the second point is index 1)
C14_NamesPointFromZero ==
    Done("validate_data_integrity") =>
        LET d == arg.in
            Inconsistent(s) == \E i \in 1..Len(d[s][2]) : Differs(d[s][2], i)
            Bad(s) == d[s][2] = << >> \/ Inconsistent(s)
        IN  /\ (\E s \in 1..Len(d) : Inconsistent(s)) => res # NoError
            /\ \A s \in 1..Len(d) :
                  (Inconsistent(s) /\ \A t \in 1..(s - 1) : ~ Bad(t)) =>
                      /\ Len(res) = 4
                      /\ res[2] = "inconsistent"
                      /\ res[3] = d[s][1]
                      /\ res[4] + 1 \in 1..Len(d[s][2])
                      /\ Differs(d[s][2], res[4] + 1)
                      /\ \A i \in 1..res[4] : ~ Differs(d[s][2], i)
\* C14 witness: suite "b" follows a sound suite and its second point differs
C14_Witness ==
    /\ Done("validate_data_integrity")
    /\ Len(arg.in) = 2 /\ Len(arg.in[2][2]) = 2 /\ Differs(arg.in[2][2], 2)
    /\ res = <<"PerformanceDataError", "inconsistent", "b", 1>>

\* the places of raw input at which the stated validation has to fail: a
\* suite that is no array, an element that is no object, a field that is no number
BadSuites(raw) == {s \in 1..Len(raw.v) : raw.v[s][2].t # "arr"}
BadElements(raw) ==
    {si \in (1..Len(raw.v)) \X (1..MaxPoints + 1) :
        /\ raw.v[si[1]][2].t = "arr"
        /\ si[2] <= Len(raw.v[si[1]][2].v)
        /\ \/ raw.v[si[1]][2].v[si[2]].t # "obj"
           \/ \E k \in 1..Len(raw.v[si[1]][2].v[si[2]].v) :
                 raw.v[si[1]][2].v[si[2]].v[k][2].t # "num"}
WellFormedRaw(raw) ==
    raw.t = "obj" /\ BadSuites(raw) = {} /\ BadElements(raw) = {}
\* C15: loading raw input fails whenever the root is no object, a suite's
\* value is no array, an array element is no object or a field of a point is
\* not numeric, and the error of a bad element names its suite and its index;
\* raw input that passes holds only arrays of objects with numeric fields
C15_RawValidation ==
    (Done("load_data") /\ arg.in.file = "json") =>
        /\ ~ WellFormedRaw(arg.in.raw) => res[1] = "PerformanceDataError"
        /\ res[1] = "ok" => WellFormedRaw(arg.in.raw)
        /\ (arg.in.raw.t = "obj" /\ BadSuites(arg.in.raw) = {} /\ BadElements(arg.in.raw) # {})
              => \E si \in BadElements(arg.in.raw) :
                    /\ Len(res) >= 5
                    /\ res[4] = arg.in.raw.v[si[1]][1]
                    /\ res[5] = si[2]

\* suite s is the first suite of d that has a point
FirstNonEmpty(d, s) == d[s][2] # << >> /\ \A t \in 1..(s - 1) : d[t][2] = << >>
C17_SeriesPerSuite ==
    (/\ Done("get_metric_values")
     /\ validate_data_integrity(arg.in.data) = NoError
     /\ validate_metric(arg.in.data, arg.in.metric) = NoError) =>
        /\ res[1] = "return"
        /\ Len(res[2]) = Len(arg.in.data)
        /\ \A s \in 1..Len(arg.in.data) :
              /\ res[2][s][1] = arg.in.data[s][1]
              /\ res[2][s][2] # << >>
              /\ Len(res[2][s][2]) = Len(arg.in.data[s][2])

\* the sum of f[i] over the set of places I
RECURSIVE SumOver(_, _)
SumOver(f, I) ==
    IF I = {} THEN 0 ELSE LET i == CHOOSE x \in I : TRUE IN f[i] + SumOver(f, I \ {i})
\* min, max, the fraction avg and the fraction sq (the square of the standard
\* deviation) are the minimum, the maximum, the arithmetic mean and the
\* population standard deviation of the values v
AreStatisticsOf(v, min, max, avg, sq) ==
    LET n == Len(v)
        S == SumOver(v, 1..n)
        \* n times the deviation of value i from the mean
        dev == [i \in 1..n |-> (n * v[i] - S) * (n * v[i] - S)]
    IN  /\ \E i \in 1..n : v[i] = min
        /\ \A i \in 1..n : min <= v[i]
        /\ \E i \in 1..n : v[i] = max
        /\ \A i \in 1..n : v[i] <= max
        /\ avg[2] > 0 /\ avg[1] * n = S * avg[2]
        /\ min * avg[2] <= avg[1] /\ avg[1] <= max * avg[2]
        /\ sq[2] > 0 /\ sq[1] * n * n * n = SumOver(dev, 1..n) * sq[2]
        /\ n = 1 => sq[1] = 0
\* C18 (as stated): from_values and the report's statistics table give the
\* minimum, maximum, mean, population standard deviation and number of values
C18_FiveStatistics ==
    (Done("statistics") /\ arg.in # << >>) =>
        /\ AreStatisticsOf(arg.in, res.stats.min_val, res.stats.max_val,
                           res.stats.avg_val, res.stats.std_dev)
        /\ res.stats.count = Len(arg.in)
        /\ AreStatisticsOf(arg.in, res.report.min, res.report.max,
                           res.report.avg, res.report.stdev)
        /\ "count" \in DOMAIN res.report
\* C18 (amended): from_values gives the minimum, maximum, arithmetic mean,
\* population standard deviation and number of the values (min <= avg <= max,
\* std 0 for one value); the report's table gives the same minimum, maximum,
\* mean and standard deviation and no count
C18_Statistics ==
    (Done("statistics") /\ arg.in # << >>) =>
        /\ AreStatisticsOf(arg.in, res.stats.min_val, res.stats.max_val,
                           res.stats.avg_val, res.stats.std_dev)
        /\ res.stats.count = Len(arg.in)
        /\ AreStatisticsOf(arg.in, res.report.min, res.report.max,
                           res.report.avg, res.report.stdev)
        /\ DOMAIN res.report = {"min", "max", "avg", "stdev"}
        /\ arg.in = <<10, 12>> =>
              res.stats = [min_val |-> 10, max_val |-> 12, avg_val |-> <<22, 2>>,
                           std_dev |-> <<4, 4>>, count |-> 2]
        /\ arg.in = <<8>> =>
              res.stats = [min_val |-> 8, max_val |-> 8, avg_val |-> <<8, 1>>,
                           std_dev |-> <<0, 1>>, count |-> 1]
\* C18 witness: the statistics of the values 10, 12: mean 22/2, variance 4/4
C18_Witness ==
    /\ Done("statistics")
    /\ arg.in = <<10, 12>>
    /\ res.stats.avg_val = <<22, 2>> /\ res.stats.std_dev = <<4, 4>>
    /\ res.report.stdev = <<4, 4>>

C20_ExitStatus ==
    /\ (Done("load_data") /\ arg.in.file \in {"missing", "invalid_json"})
          => res = <<"SystemExit", 1>>
    /\ (Done("main") /\ arg.in.file \in {"missing", "invalid_json"})
          => (res.status = 1 /\ res.generated = << >>)
    /\ (Done("main") /\ res.raised = NoError) => res.status = 0

\* C21: with the list-metrics option main prints the available metrics and
\* returns without generating a chart or a report, whatever other options,
\* an explicit metric list included, are given with it
C21_ListMetricsOnly ==
    (Done("run_main") /\ arg.in.list_metrics /\ load_data(arg.in.file)[1] = "ok") =>
        /\ "listed" \in DOMAIN res
        /\ res.generated = << >>

\* C22: every chart image the report links is the destination of a batch job
\* that succeeded, and every artifact the batch produced is linked; the
\* destination of a failed job is not linked
C22_ReportLinksProduced ==
    (Done("generate_report") /\ res.raised = NoError) => res.links = res.produced

\* C23: in the stacked bar computation each suite contributes, at iteration
\* i, its value i if it has one and 0 otherwise, in suite-list order, and
\* the bottom of a suite at iteration i is the sum of its contributions at
\* the iterations before i (0 at iteration 0)
C23_StackedBars ==
    (Done("stacked_bars") /\ res # << >>) =>
        /\ \A s \in 1..Len(arg.in) : Len(arg.in[s]) <= Len(res)
        /\ \E s \in 1..Len(arg.in) : Len(arg.in[s]) = Len(res)
        /\ \A i \in 0..(Len(res) - 1) : \A s \in 1..Len(arg.in) :
              LET contribution == [k \in 0..(Len(res) - 1) |->
                                      IF k < Len(arg.in[s]) THEN arg.in[s][k + 1] ELSE 0]
              IN  /\ Len(res[i + 1].values) = Len(arg.in)
                  /\ res[i + 1].values[s] = contribution[i]
                  /\ res[i + 1].bottom[s] = SumOver(contribution, 0..(i - 1))
\* C23 witness: A = [1, 2] and B = [3]: bottoms [0, 0] with heights [1, 3],
\* then bottoms [1, 3] with heights [2, 0]
C23_Witness ==
    /\ Done("stacked_bars")
    /\ arg.in = << <<1, 2>>, <<3>> >>
    /\ res = << [values |-> <<1, 3>>, bottom |-> <<0, 0>>],
                [values |-> <<2, 0>>, bottom |-> <<1, 3>>] >>

\* C24: the heatmap matrix has one row per suite in dataset order and one
\* column per metric in the order of the metric list, and cell (i, j) is the
\* arithmetic mean of metric j over all points of suite i
C24_HeatmapMatrix ==
    Done("heatmap_matrix") =>
        LET d  == arg.in.data
            ms == arg.in.metric
        IN  /\ Len(res.matrix) = Len(d)
            /\ res.rows = [i \in 1..Len(d) |-> d[i][1]]
            /\ res.cols = ms
            /\ \A i \in 1..Len(d) :
                  /\ Len(res.matrix[i]) = Len(ms)
                  /\ \A j \in 1..Len(ms) :
                        LET v == [p \in 1..Len(d[i][2]) |-> d[i][2][p][ms[j]]]
                        IN  /\ res.matrix[i][j][2] > 0
                            /\ res.matrix[i][j][1] * Len(v)
                                  = SumOver(v, 1..Len(v)) * res.matrix[i][j][2]
\* C24 witness: two suites and the metrics in the order m2, m1: the row of
\* suite "a" holds the mean of m2 (3/2), then the mean of m1 (22/2)
C24_Witness ==
    /\ Done("heatmap_matrix")
    /\ arg.in.metric = <<"m2", "m1">>
    /\ arg.in.data = << <<"a", <<Point(10, 1), Point(12, 2)>> >>, <<"b", <<Point(8, -3)>> >> >>
    /\ res.matrix[1] = << <<3, 2>>, <<22, 2>> >>
    /\ res.matrix[2] = << <<-3, 1>>, <<8, 1>> >>

\* C25: the series at position i gets entry i mod paletteSize of the fixed
\* palette: marker i mod 14 of the marker list and colour i mod 10 of the
\* colormap, whatever the number of series
C25_CyclicAssignment ==
    Done("series_style") =>
        /\ res.marker = marker_styles[(arg.in.i % Len(marker_styles)) + 1]
        /\ res.color = tab10[(arg.in.i % Len(tab10)) + 1]

\* C26: with the trend-line option a line is fitted for a series exactly when
\* it has at least two points, the fitted line satisfies the normal equations
\* of the least-squares problem, and (1,2), (2,4), (3,6) give slope 2 and
\* intercept 0
C26_TrendLine ==
    Done("trend") =>
        LET xs  == arg.in.xs
            ys  == arg.in.ys
            all == 1..Len(xs)
            Sx  == SumOver(xs, all)
            Sy  == SumOver(ys, all)
            Sxx == SumOver([k \in all |-> xs[k] * xs[k]], all)
            Sxy == SumOver([k \in all |-> xs[k] * ys[k]], all)
        IN  /\ Len(res) = (IF arg.in.trend_line /\ Len(xs) >= 2 THEN 1 ELSE 0)
            /\ res # << >> =>
                  LET a == res[1].slope
                      b == res[1].intercept
                  IN  /\ a[2] # 0 /\ b[2] # 0
                      /\ a[1] * b[2] * Sxx + b[1] * a[2] * Sx = Sxy * a[2] * b[2]
                      /\ a[1] * b[2] * Sx + b[1] * a[2] * Len(xs) = Sy * a[2] * b[2]
            /\ (arg.in.trend_line /\ xs = <<1, 2, 3>> /\ ys = <<2, 4, 6>>) =>
                  /\ res[1].slope[1] = 2 * res[1].slope[2]
                  /\ res[1].intercept[1] = 0
\* C26 witness: the points (1,2), (2,4), (3,6) fitted with slope 12/6 and
\* intercept 0/6
C26_Witness ==
    /\ Done("trend")
    /\ arg.in.trend_line
    /\ arg.in.xs = <<1, 2, 3>>
    /\ arg.in.ys = <<2, 4, 6>>
    /\ res = <<[slope |-> <<12, 6>>, intercept |-> <<0, 6>>]>>
\* a series of one point with the option on has no trend line
C26_SinglePoint ==
    /\ Done("trend")
    /\ arg.in.trend_line
    /\ Len(arg.in.xs) = 1
    /\ res = << >>

\* C27: every call create_style_config(name, dark_mode) leaves the backend's
\* current style equal to the style selected by its arguments, also when the
\* arguments were used by an earlier call and another style was applied since
C27_OwnStyle ==
    styleCache # {} => rc = StyleApplied(style)

\* C28: no two jobs submitted by one batch have the same destination path,
\* whatever the metric list
C28_DistinctDestinations ==
    Done("generate_all_charts") =>
        \A i, j \in 1..Len(res) :
            i # j => file_name(res[i].dest) # file_name(res[j].dest)
\* the same restricted to lists without a repeated metric; VsMetrics violates
\* it: the pairs (c_vs_a, b) and (a, b_vs_c) both render b_vs_c_vs_a_scatter.png
C28_DistinctMetrics ==
    (Done("generate_all_charts") /\ \A p, q \in 1..Len(arg.in) : p # q => arg.in[p] # arg.in[q]) =>
        \A i, j \in 1..Len(res) :
            i # j => file_name(res[i].dest) # file_name(res[j].dest)

\* C29: a chart call that fails validation (invalid dataset or a metric it
\* names not found, the scatter size metric included) raises before it has
\* changed the backend's style, created the output directory or saved a file
C29_ValidationFirst ==
    (Done("chart_call") /\ res.raised # NoError /\ res.raised[1] = "PerformanceDataError") =>
        /\ res.rc = StyleUse("default")
        /\ ~res.mkdir
        /\ ~res.saved
\* the same for the calls without a size metric
C29_WithoutSizeMetric ==
    (Done("chart_call") /\ arg.in.size = << >>
        /\ res.raised # NoError /\ res.raised[1] = "PerformanceDataError") =>
        /\ res.rc = StyleUse("default")
        /\ ~res.mkdir
        /\ ~res.saved

\* C30: for every dataset and metric list the sequential path of main (chart
\* type "all") and the concurrent batch leave the same set of artifact files,
\* also when a chart fails
C30_SameArtifacts ==
    Done("artifacts") => res.sequential = res.batch
\* the two paths agree where no chart fails
C30_SameWithoutFailure ==
    (Done("artifacts")
        /\ \A i \in 1..Len(BatchJobs(arg.in.metric)) :
              JobError(arg.in.data, BatchJobs(arg.in.metric)[i]) = NoError)
        => res.sequential = res.batch

====
